---- MODULE Spec2Model ----
(***************************************************************************)
(* A model of the three batch scripts of harp_data:                        *)
(*   scripts/download_raw_data.py      the Downloader                      *)
(*   scripts/process_raw_data.py       the Raw-data processor              *)
(*   scripts/aggregate_recs_by_time.py the Aggregator                      *)
(* Each script is a sequential program; its position is a pc variable and  *)
(* each statement group of the script is one action.  Times are minutes   *)
(* since 2010-05-01T00:00:00; dates are <<month, day>> pairs of 2010.       *)
(***************************************************************************)
EXTENDS Integers, Naturals, Sequences, FiniteSets, TLC

VARIABLES
  \* ---- Downloader (download_raw_data.py) ----
  dl_pc,            \* position in the script
  series_listed,    \* cmd_args.series in sharp_series
  dir_exists,       \* os.path.exists(series_dir)
  first_start_dt,   \* cmd_args.first_start_dt, a date <<mm, dd>>
  last_end_dt,      \* cmd_args.last_end_dt, a date <<mm, dd>>
  step_size,        \* cmd_args.step_size, a frequency
  start_dttms,      \* sequence of window starts (minutes)
  end_dttms,        \* sequence of window ends (minutes)
  i,                \* loop index of the download loop
  queries,          \* sequence of record-set queries issued to the archive
  writes,           \* sequence of <<file name, contents>> written, in order
  files,            \* the output directory: set of <<file name, contents>>
  sleeps,           \* number of time.sleep calls made
  \* ---- Raw-data processor (process_raw_data.py) ----
  pr_pc,                \* position in the script
  keep_low_qual_vals,   \* cmd_args.keep_low_qual_vals
  keep_near_limb_recs,  \* cmd_args.keep_near_limb_recs
  limb_threshold,       \* cmd_args.limb_threshold
  columns,              \* data.columns: the keywords that were downloaded
  data,                 \* the DataFrame: a sequence of rows
  steps_done,           \* the work performed so far, in order
  saved,                \* the parquet file written: <<file name, rows>>
  reruns,               \* how often the output was filtered and regularized again
  \* ---- Aggregator (aggregate_recs_by_time.py) ----
  ag_pc,                \* position in the script
  use_low_qual_recs,    \* cmd_args.use_low_qual_recs
  use_near_limb_recs,   \* cmd_args.use_near_limb_recs
  ag_limb_threshold,    \* cmd_args.limb_threshold (of the Aggregator)
  ag_data,              \* the consolidated table read, then the aggregated one
  ag_input,             \* the consolidated table as it was read
  ag_saved,             \* the parquet file written: <<file name, rows>>
  \* ---- the limb filter applied to a single record ----
  lf_in,                \* the record, the threshold and the options
  lf_out                \* what the two scripts do with the record

dl_vars == <<dl_pc, series_listed, dir_exists, first_start_dt, last_end_dt,
             step_size, start_dttms, end_dttms, i, queries, writes, files, sleeps>>

pr_vars == <<pr_pc, keep_low_qual_vals, keep_near_limb_recs, limb_threshold,
             columns, data, steps_done, saved, reruns>>

ag_vars == <<ag_pc, use_low_qual_recs, use_near_limb_recs, ag_limb_threshold,
             ag_data, ag_input, ag_saved>>

lf_vars == <<lf_in, lf_out>>

vars == <<dl_vars, pr_vars, ag_vars, lf_vars>>

not_dl == <<pr_vars, ag_vars, lf_vars>>

not_pr == <<dl_vars, ag_vars, lf_vars>>

not_ag == <<dl_vars, pr_vars, lf_vars>>

not_lf == <<dl_vars, pr_vars, ag_vars>>

----------------------------------------------------------------------------
(* Bounds of the model *)

\* Dates are drawn from the first MaxDay+1 days starting at 2010-05-01.
MaxDay == 31

(* Program constants *)

\* timedelta(minutes=12): the cadence of the SHARP records
CadenceMin == 12
\* .replace(hour=23, minute=48): the last record time of a day, in minutes
LastRecOfDay == 1428
MinPerDay == 1440

----------------------------------------------------------------------------
(* Calendar of 2010, months May..September (the archive starts 2010-05-01) *)

FirstMonth == 5
LastMonth == 8

DaysInMonth(m) ==
  CASE m = 5 -> 31 [] m = 6 -> 30 [] m = 7 -> 31 [] m = 8 -> 31
    [] m = 9 -> 30 [] m = 10 -> 31 [] m = 11 -> 30 [] m = 12 -> 31

RECURSIVE DaysBefore(_)
\* number of days from 2010-05-01 to the first day of month m
DaysBefore(m) == IF m = FirstMonth THEN 0 ELSE DaysBefore(m - 1) + DaysInMonth(m - 1)

Dates == {<<m, d>> : m \in FirstMonth..LastMonth, d \in 1..31}

ValidDates == {dt \in Dates : dt[2] <= DaysInMonth(dt[1])}

\* datetime.strptime(s, "%Y%m%d"): midnight of that date, in minutes
Strptime(dt) == (DaysBefore(dt[1]) + dt[2] - 1) * MinPerDay

\* strftime("%Y%m%d"): the date of a time, its time of day dropped
StrftimeDate(t) ==
  LET day == t \div MinPerDay
      m == CHOOSE k \in FirstMonth..LastMonth :
             DaysBefore(k) <= day /\ day < DaysBefore(k) + DaysInMonth(k)
  IN <<m, day - DaysBefore(m) + 1>>

\* strftime("%Y.%m.%d_%H:%M:%S"): date and time of day
StrftimeFull(t) == <<StrftimeDate(t), (t % MinPerDay) \div 60, t % 60>>

----------------------------------------------------------------------------
(* pandas.date_range(start, end, freq) for the frequencies modelled *)

\* Tick frequencies are a number of minutes; "MS" and "ME" are the calendar
\* anchored month-start and month-end frequencies.
StepSizes == {[kind |-> "tick", n |-> 720], [kind |-> "tick", n |-> 1440],
              [kind |-> "tick", n |-> 10080],
              [kind |-> "MS", n |-> 1], [kind |-> "ME", n |-> 1]}

\* the anchors of an anchored frequency: midnight of month starts / month ends
Anchors(kind) ==
  IF kind = "MS"
  THEN {DaysBefore(m) * MinPerDay : m \in FirstMonth..LastMonth}
  ELSE {(DaysBefore(m) + DaysInMonth(m) - 1) * MinPerDay : m \in FirstMonth..LastMonth}

RECURSIVE Ticks(_, _, _)
Ticks(cur, end, n) ==
  IF cur > end THEN <<>> ELSE <<cur>> \o Ticks(cur + n, end, n)

RECURSIVE Ascending(_)
\* the elements of a finite set of integers as an ascending sequence
Ascending(S) ==
  IF S = {} THEN <<>>
  ELSE LET lo == CHOOSE x \in S : \A y \in S : x <= y
       IN <<lo>> \o Ascending(S \ {lo})

DateRange(start, end, freq) ==
  IF freq.kind = "tick"
  THEN Ticks(start, end, freq.n)
  ELSE Ascending({a \in Anchors(freq.kind) : start <= a /\ a <= end})

SeqRange(s) == {s[k] : k \in 1..Len(s)}

\* index[1:]
Tail1(s) == IF Len(s) = 0 THEN <<>> ELSE Tail(s)

----------------------------------------------------------------------------
(* download_raw_data.py *)

first_start_dttm == Strptime(first_start_dt)

\* a slip that forgets .replace(hour=23, minute=48)
last_end_midnight == Strptime(last_end_dt)

last_end_dttm == Strptime(last_end_dt) + LastRecOfDay

\* a slip that drops lines 63-64: the requested start is never prepended
BuildStarts_NoPrepend(first, last, freq) == DateRange(first, last, freq)

\* lines 62-64
BuildStarts(first, last, freq) ==
  LET r == DateRange(first, last, freq)
  IN IF first \notin SeqRange(r) THEN <<first>> \o r ELSE r

\* lines 65-67
BuildEnds(starts, last) ==
  LET e == [k \in 1..Len(Tail1(starts)) |-> Tail1(starts)[k] - CadenceMin]
  IN IF last \notin SeqRange(e) THEN Append(e, last) ELSE e

\* zip(start_dttms, end_dttms): stops at the shorter of the two
NumWindows == IF Len(start_dttms) <= Len(end_dttms) THEN Len(start_dttms) ELSE Len(end_dttms)

\* download_data, line 20: the record-set query string
RecordSet(s, e) == <<StrftimeFull(s), StrftimeFull(e)>>

\* download_data, lines 23-25: the file name
FileName(s, e) == <<StrftimeDate(s), StrftimeDate(e)>>

\* data.to_csv(path): creates the file or replaces its contents
ToCsv(dir, name, contents) == {f \in dir : f[1] # name} \cup {<<name, contents>>}

\* the other scripts are not running
DLIdle ==
  /\ dl_pc = "idle"
  /\ series_listed = FALSE
  /\ dir_exists = FALSE
  /\ first_start_dt = <<5, 1>>
  /\ last_end_dt = <<5, 1>>
  /\ step_size = [kind |-> "MS", n |-> 1]
  /\ start_dttms = <<>>
  /\ end_dttms = <<>>
  /\ i = 0
  /\ queries = <<>>
  /\ writes = <<>>
  /\ files = {}
  /\ sleeps = 0

PRIdle ==
  /\ pr_pc = "idle"
  /\ keep_low_qual_vals = FALSE
  /\ keep_near_limb_recs = FALSE
  /\ limb_threshold = 0
  /\ columns = {}
  /\ data = <<>>
  /\ steps_done = <<>>
  /\ saved = <<>>
  /\ reruns = 0

AGIdle ==
  /\ ag_pc = "idle"
  /\ use_low_qual_recs = FALSE
  /\ use_near_limb_recs = FALSE
  /\ ag_limb_threshold = 0
  /\ ag_data = <<>>
  /\ ag_input = <<>>
  /\ ag_saved = <<>>

LFIdle ==
  /\ lf_in = <<>>
  /\ lf_out = <<>>

DLInit ==
  /\ dl_pc = "check_series"
  /\ series_listed \in BOOLEAN
  /\ dir_exists \in BOOLEAN
  /\ first_start_dt \in {dt \in ValidDates : Strptime(dt) <= MaxDay * MinPerDay}
  /\ last_end_dt \in {dt \in ValidDates : Strptime(dt) <= MaxDay * MinPerDay}
  /\ step_size \in StepSizes
  /\ start_dttms = <<>>
  /\ end_dttms = <<>>
  /\ i = 0
  /\ queries = <<>>
  /\ writes = <<>>
  /\ files = {}
  /\ sleeps = 0
  /\ PRIdle /\ AGIdle /\ LFIdle

\* lines 50-53
CheckSeries ==
  /\ dl_pc = "check_series"
  /\ dl_pc' = IF series_listed THEN "check_dir" ELSE "raised"
  /\ UNCHANGED <<series_listed, dir_exists, first_start_dt, last_end_dt, step_size,
                 start_dttms, end_dttms, i, queries, writes, files, sleeps, not_dl>>

\* lines 54-56
CheckDir ==
  /\ dl_pc = "check_dir"
  /\ dl_pc' = IF dir_exists THEN "windows" ELSE "raised"
  /\ UNCHANGED <<series_listed, dir_exists, first_start_dt, last_end_dt, step_size,
                 start_dttms, end_dttms, i, queries, writes, files, sleeps, not_dl>>

\* lines 58-67
BuildWindows ==
  /\ dl_pc = "windows"
  /\ start_dttms' = BuildStarts(first_start_dttm, last_end_dttm, step_size)
  /\ end_dttms' = BuildEnds(start_dttms', last_end_dttm)
  /\ dl_pc' = "loop"
  /\ UNCHANGED <<series_listed, dir_exists, first_start_dt, last_end_dt, step_size,
                 i, queries, writes, files, sleeps, not_dl>>

\* lines 72-74, download_data lines 20-25: the query succeeds, the file is written
DownloadData ==
  /\ dl_pc = "loop"
  /\ i < NumWindows
  /\ LET s == start_dttms[i + 1]
         e == end_dttms[i + 1]
     IN /\ queries' = Append(queries, RecordSet(s, e))
        /\ writes' = Append(writes, <<FileName(s, e), RecordSet(s, e)>>)
        /\ files' = ToCsv(files, FileName(s, e), RecordSet(s, e))
  /\ dl_pc' = "sleep"
  /\ UNCHANGED <<series_listed, dir_exists, first_start_dt, last_end_dt, step_size,
                 start_dttms, end_dttms, i, sleeps, not_dl>>

\* a slip that creates the output file before the query is known to succeed
QueryFails_LeavesFile ==
  /\ dl_pc = "loop"
  /\ i < NumWindows
  /\ LET s == start_dttms[i + 1]
         e == end_dttms[i + 1]
     IN /\ queries' = Append(queries, RecordSet(s, e))
        /\ writes' = Append(writes, <<FileName(s, e), <<>>>>)
        /\ files' = ToCsv(files, FileName(s, e), <<>>)
  /\ dl_pc' = "failed"
  /\ UNCHANGED <<series_listed, dir_exists, first_start_dt, last_end_dt, step_size,
                 start_dttms, end_dttms, i, sleeps, not_dl>>

\* line 22 raises: cli.query fails, the exception is not caught
QueryFails ==
  /\ dl_pc = "loop"
  /\ i < NumWindows
  /\ queries' = Append(queries, RecordSet(start_dttms[i + 1], end_dttms[i + 1]))
  /\ dl_pc' = "failed"
  /\ UNCHANGED <<series_listed, dir_exists, first_start_dt, last_end_dt, step_size,
                 start_dttms, end_dttms, i, writes, files, sleeps, not_dl>>

\* lines 75-76
SleepStep ==
  /\ dl_pc = "sleep"
  /\ sleeps' = IF i < Len(start_dttms) - 1 THEN sleeps + 1 ELSE sleeps
  /\ i' = i + 1
  /\ dl_pc' = "loop"
  /\ UNCHANGED <<series_listed, dir_exists, first_start_dt, last_end_dt, step_size,
                 start_dttms, end_dttms, queries, writes, files, not_dl>>

\* the loop of line 72 is exhausted
LoopEnds ==
  /\ dl_pc = "loop"
  /\ i >= NumWindows
  /\ dl_pc' = "done"
  /\ UNCHANGED <<series_listed, dir_exists, first_start_dt, last_end_dt, step_size,
                 start_dttms, end_dttms, i, queries, writes, files, sleeps, not_dl>>

DLNext ==
  \/ CheckSeries
  \/ CheckDir
  \/ BuildWindows
  \/ DownloadData
  \/ QueryFails
  \/ SleepStep
  \/ LoopEnds

SpecDL == DLInit /\ [][DLNext]_vars

----------------------------------------------------------------------------
(* Properties of the Downloader *)

WindowsBuilt == dl_pc \in {"loop", "sleep", "done", "failed"}

\* C1: once the windows are built, the first window starts at the requested
\* start at 00:00, the last window ends at the requested end date at 23:48,
\* each window ends exactly 12 minutes before the next one starts, there are
\* as many ends as starts, and no window ends after the requested end.
C1_Windowing ==
  WindowsBuilt =>
    /\ Len(start_dttms) >= 1
    /\ Len(end_dttms) = Len(start_dttms)
    /\ StrftimeFull(start_dttms[1]) = <<first_start_dt, 0, 0>>
    /\ StrftimeFull(end_dttms[Len(end_dttms)]) = <<last_end_dt, 23, 48>>
    /\ \A k \in 1..(Len(start_dttms) - 1) : end_dttms[k] + 12 = start_dttms[k + 1]
    /\ \A k \in 1..Len(end_dttms) : end_dttms[k] <= Strptime(last_end_dt) + 23 * 60 + 48

\* C1 witness: a finished run over several windows whose first start had to
\* be prepended (the requested start is not on the month-end anchor).
C1_Witness ==
  /\ dl_pc = "done"
  /\ step_size.kind = "ME"
  /\ Len(start_dttms) >= 2
  /\ first_start_dt = <<5, 1>>
  /\ Len(writes) = Len(start_dttms)

\* C2: in one run any two distinct sub-windows are written to distinct file
\* names, and after a run without failure the number of files written equals
\* the number of sub-windows.
C2_DistinctFiles ==
  /\ \A a, b \in 1..Len(writes) : a # b => writes[a][1] # writes[b][1]
  /\ dl_pc = "done" => Cardinality(files) = Len(start_dttms)

\* C3: windows are queried one at a time in order; when the query for window
\* k fails the run stops for good: exactly the queries 0..k were issued,
\* exactly the files of windows 0..k-1 were written (in order, each still
\* present under its name), and no further step of the script is possible.
C3_AbortOnFailure ==
  /\ \A k \in 1..Len(queries) : queries[k] = RecordSet(start_dttms[k], end_dttms[k])
  /\ dl_pc = "failed" =>
       /\ Len(queries) = i + 1
       /\ Len(writes) = i
       /\ \A k \in 1..i :
            /\ writes[k] = <<FileName(start_dttms[k], end_dttms[k]),
                             RecordSet(start_dttms[k], end_dttms[k])>>
            /\ \E f \in files : f[1] = writes[k][1]
       /\ \A f \in files : \E k \in 1..i : f = writes[k]
       /\ ~ENABLED DLNext

\* C3 witness: the query of a later window failed after files were written.
C3_Witness == dl_pc = "failed" /\ i >= 2 /\ Len(writes) = i /\ Cardinality(files) = i

\* C9 as stated: for 2010-05-01..2010-05-31 and any one-month step, exactly
\* one window, from 05-01T00:00 to 05-31T23:48.
C9_OneWindowAnyMonthStep ==
  (/\ WindowsBuilt
   /\ first_start_dt = <<5, 1>> /\ last_end_dt = <<5, 31>>
   /\ step_size.kind \in {"MS", "ME"})
  => /\ Len(start_dttms) = 1 /\ Len(end_dttms) = 1
     /\ StrftimeFull(start_dttms[1]) = <<<<5, 1>>, 0, 0>>
     /\ StrftimeFull(end_dttms[1]) = <<<<5, 31>>, 23, 48>>

\* C9 amended: for 2010-05-01..2010-05-31 a month-start step ("MS") gives
\* exactly one window, 05-01T00:00 to 05-31T23:48; a month-end step ("ME")
\* gives two, 05-01T00:00 to 05-30T23:48 and 05-31T00:00 to 05-31T23:48; in
\* both cases no window crosses the requested end.
C9_MonthStep ==
  (/\ WindowsBuilt
   /\ first_start_dt = <<5, 1>> /\ last_end_dt = <<5, 31>>)
  => /\ step_size.kind = "MS" =>
          /\ Len(start_dttms) = 1 /\ Len(end_dttms) = 1
          /\ StrftimeFull(start_dttms[1]) = <<<<5, 1>>, 0, 0>>
          /\ StrftimeFull(end_dttms[1]) = <<<<5, 31>>, 23, 48>>
     /\ step_size.kind = "ME" =>
          /\ Len(start_dttms) = 2 /\ Len(end_dttms) = 2
          /\ StrftimeFull(start_dttms[1]) = <<<<5, 1>>, 0, 0>>
          /\ StrftimeFull(end_dttms[1]) = <<<<5, 30>>, 23, 48>>
          /\ StrftimeFull(start_dttms[2]) = <<<<5, 31>>, 0, 0>>
          /\ StrftimeFull(end_dttms[2]) = <<<<5, 31>>, 23, 48>>
     /\ step_size.kind \in {"MS", "ME"} =>
          \A k \in 1..Len(end_dttms) :
            StrftimeFull(end_dttms[k])[1][1] = 5 /\ start_dttms[k] <= end_dttms[k]

\* C9 witness: the May 2010 run with a month-start step has finished.
C9_Witness ==
  /\ dl_pc = "done"
  /\ first_start_dt = <<5, 1>> /\ last_end_dt = <<5, 31>>
  /\ step_size.kind = "MS"
  /\ Len(writes) = 1

----------------------------------------------------------------------------
(* Tables.  A row is a record over the table's columns.  A cell holds <<>>  *)
(* when it is missing (NaN, NA) and <<v>> when it holds the value v.        *)

NA == <<>>

IsNA(x) == x = NA

Abs(x) == IF x < 0 THEN -x ELSE x

\* the largest number of rows of a raw table
MaxRows == 3

\* argparse default of --limb_threshold
DefaultLimbThreshold == 70

\* sample HARP numbers
HarpNums == {1, 2}

\* T_REC strings of the archive ("2010.05.01_23:36:00_TAI", ...): three
\* consecutive record times across a midnight
RawTimes == {StrftimeFull(t) : t \in {1416, 1428, 1440}}

\* the rows the archive may deliver, over all the keywords modelled
FullRows ==
  [HARPNUM : {<<h>> : h \in HarpNums},
   T_REC : RawTimes,
   QUALITY : {<<0>>, <<1>>},
   LON_FWT : {<<DefaultLimbThreshold>>, <<DefaultLimbThreshold + 1>>},
   USFLUX : {<<5>>}]

Project(r, cols) == [c \in cols |-> r[c]]

KeyColumns == {"HARPNUM", "T_REC", "USFLUX"}

\* the keyword lists a user may have downloaded
ColumnSets == {KeyColumns \cup opt : opt \in SUBSET {"QUALITY", "LON_FWT"}}

RawRows(cols) == {Project(r, cols) : r \in FullRows}

RECURSIVE SubsetsUpTo(_, _)
\* the subsets of S with at most n elements
SubsetsUpTo(S, n) ==
  IF n = 0 THEN {{}}
  ELSE LET smaller == SubsetsUpTo(S, n - 1)
       IN smaller \cup {T \cup {x} : T \in smaller, x \in S}

RawTables(cols) == SubsetsUpTo(RawRows(cols), MaxRows) \ {{}}

----------------------------------------------------------------------------
(* process_raw_data.py *)

\* line 43: pd.to_datetime(col.str.replace("_TAI", ""), format="%Y.%m.%d_%H:%M:%S")
ToDatetime(tai) == Strptime(tai[1]) + tai[2] * 60 + tai[3]

RECURSIVE ConcatInOrder(_)
\* lines 22-24: the rows of the raw files, concatenated in file order: by
\* record time, then HARP number
ConcatInOrder(S) ==
  IF S = {} THEN <<>>
  ELSE LET first == CHOOSE r \in S : \A q \in S :
                      \/ ToDatetime(r.T_REC) < ToDatetime(q.T_REC)
                      \/ /\ ToDatetime(r.T_REC) = ToDatetime(q.T_REC)
                         /\ r.HARPNUM[1] <= q.HARPNUM[1]
       IN <<first>> \o ConcatInOrder(S \ {first})

\* lines 30-44: the time columns become datetimes
ConvertTimes(d) == [k \in 1..Len(d) |-> [d[k] EXCEPT !.T_REC = ToDatetime(@)]]

\* line 68: data.loc[data["QUALITY"] != 0, predictors] = np.nan
NullLowQuality(d) ==
  [k \in 1..Len(d) |-> IF d[k].QUALITY # <<0>> THEN [d[k] EXCEPT !.USFLUX = NA] ELSE d[k]]

\* line 90 with < for <=: records exactly at the threshold are discarded
WithinLimb_Strict(lon, threshold) == ~IsNA(lon) /\ Abs(lon[1]) < threshold

\* line 90 (and aggregate_recs_by_time.py line 84): abs() <= limb_threshold,
\* False for a missing LON_FWT
WithinLimb(lon, threshold) == ~IsNA(lon) /\ Abs(lon[1]) <= threshold

\* line 90: data = data[data["LON_FWT"].abs() <= limb_threshold]
DiscardNearLimb(d, threshold) ==
  LET Keep(r) == WithinLimb(r.LON_FWT, threshold)
  IN SelectSeq(d, Keep)

TimesOf(group) == {group[k].T_REC : k \in 1..Len(group)}

MinOf(S) == CHOOSE x \in S : \A y \in S : x <= y

MaxOf(S) == CHOOSE x \in S : \A y \in S : x >= y

\* line 103 with the end of the range excluded
FullTimeRange_OpenEnd(group) ==
  Ticks(MinOf(TimesOf(group)), MaxOf(TimesOf(group)) - CadenceMin, CadenceMin)

\* line 103 with the end of the range pushed one cadence too far
FullTimeRange_PastEnd(group) ==
  Ticks(MinOf(TimesOf(group)), MaxOf(TimesOf(group)) + CadenceMin, CadenceMin)

\* line 103: pd.date_range(start=min, end=max, freq="12min")
FullTimeRange(group) ==
  Ticks(MinOf(TimesOf(group)), MaxOf(TimesOf(group)), CadenceMin)

\* reindex raises ValueError on an index with duplicate labels
HasDuplicateTimes(group) == Cardinality(TimesOf(group)) # Len(group)

\* line 104: set_index("T_REC").reindex(full_time_range, fill_value=pd.NA)
Reindex(group, times) ==
  [k \in 1..Len(times) |->
     IF times[k] \in TimesOf(group)
     THEN LET j == CHOOSE j \in 1..Len(group) : group[j].T_REC = times[k]
          IN group[j]
     ELSE [c \in DOMAIN group[1] |-> IF c = "T_REC" THEN times[k] ELSE NA]]

RECURSIVE Ffill(_)
\* Series.ffill(): a missing value takes the last value before it
Ffill(col) ==
  IF Len(col) <= 1 THEN col
  ELSE LET init == Ffill(SubSeq(col, 1, Len(col) - 1))
           last == col[Len(col)]
       IN Append(init, IF IsNA(last) THEN init[Len(init)] ELSE last)

RECURSIVE Bfill(_)
\* Series.bfill(): a missing value takes the first value after it
Bfill(col) ==
  IF Len(col) <= 1 THEN col
  ELSE LET rest == Bfill(Tail(col))
       IN <<IF IsNA(col[1]) THEN rest[1] ELSE col[1]>> \o rest

\* line 106: group["HARPNUM"] = group["HARPNUM"].ffill().bfill()
FillHarpnum(rows) ==
  LET filled == Bfill(Ffill([k \in 1..Len(rows) |-> rows[k].HARPNUM]))
  IN [k \in 1..Len(rows) |-> [rows[k] EXCEPT !.HARPNUM = filled[k]]]

\* lines 96-107
insert_missing_rows(group) == FillHarpnum(Reindex(group, FullTimeRange(group)))

HarpsOf(d) == {d[k].HARPNUM[1] : k \in 1..Len(d)}

GroupOf(d, h) ==
  LET InGroup(r) == r.HARPNUM = <<h>>
  IN SelectSeq(d, InGroup)

RECURSIVE ApplyToGroups(_, _)
\* line 113: groupby("HARPNUM").apply(insert_missing_rows), groups in key order
ApplyToGroups(d, harps) ==
  IF harps = <<>> THEN <<>>
  ELSE insert_missing_rows(GroupOf(d, Head(harps))) \o ApplyToGroups(d, Tail(harps))

RECURSIVE SortValues(_)
\* line 116: sort_values(by=["HARPNUM", "T_REC"]), a stable sort
SortValues(d) ==
  IF d = <<>> THEN <<>>
  ELSE LET Least(k) == \A j \in 1..Len(d) :
                         \/ d[k].HARPNUM[1] < d[j].HARPNUM[1]
                         \/ /\ d[k].HARPNUM[1] = d[j].HARPNUM[1]
                            /\ d[k].T_REC <= d[j].T_REC
           k == CHOOSE k \in 1..Len(d) : Least(k) /\ \A j \in 1..(k - 1) : ~Least(j)
       IN <<d[k]>> \o SortValues(SubSeq(d, 1, k - 1) \o SubSeq(d, k + 1, Len(d)))

\* lines 109-118, when no group has duplicate times
InsertMissingRows(d) == SortValues(ApplyToGroups(d, Ascending(HarpsOf(d))))

AnyDuplicateTimes(d) == \E h \in HarpsOf(d) : HasDuplicateTimes(GroupOf(d, h))

\* lines 122-129: the name of the output file
OutputName ==
  IF keep_low_qual_vals /\ keep_near_limb_recs THEN <<"all">>
  ELSE (IF keep_low_qual_vals THEN <<>> ELSE <<"hq">>)
       \o (IF keep_near_limb_recs THEN <<>> ELSE <<"nc", limb_threshold>>)

PRInit ==
  /\ pr_pc = "compile"
  /\ keep_low_qual_vals \in BOOLEAN
  /\ keep_near_limb_recs \in BOOLEAN
  /\ limb_threshold = DefaultLimbThreshold
  /\ columns \in ColumnSets
  /\ data = <<>>
  /\ steps_done = <<>>
  /\ saved = <<>>
  /\ reruns = 0
  /\ DLIdle /\ AGIdle /\ LFIdle

\* lines 20-26: read and concatenate the raw chunk files
Compile ==
  /\ pr_pc = "compile"
  /\ \E S \in RawTables(columns) : data' = ConcatInOrder(S)
  /\ steps_done' = Append(steps_done, "compile")
  /\ pr_pc' = "convert"
  /\ UNCHANGED <<keep_low_qual_vals, keep_near_limb_recs, limb_threshold, columns,
                 saved, reruns, not_pr>>

\* lines 28-55: archive metadata lookup, timestamp conversion, infinities
Convert ==
  /\ pr_pc = "convert"
  /\ data' = ConvertTimes(data)
  /\ steps_done' = steps_done \o <<"info", "convert", "replace_inf">>
  /\ pr_pc' = "low_qual"
  /\ UNCHANGED <<keep_low_qual_vals, keep_near_limb_recs, limb_threshold, columns,
                 saved, reruns, not_pr>>

\* lines 64-72
LowQual ==
  /\ pr_pc = "low_qual"
  /\ IF keep_low_qual_vals
     THEN pr_pc' = "near_limb" /\ UNCHANGED <<data, steps_done>>
     ELSE IF "QUALITY" \in columns
          THEN /\ data' = NullLowQuality(data)
               /\ steps_done' = Append(steps_done, "low_qual")
               /\ pr_pc' = "near_limb"
          ELSE pr_pc' = "raised" /\ UNCHANGED <<data, steps_done>>
  /\ UNCHANGED <<keep_low_qual_vals, keep_near_limb_recs, limb_threshold, columns,
                 saved, reruns, not_pr>>

\* lines 86-94
NearLimb ==
  /\ pr_pc = "near_limb"
  /\ IF keep_near_limb_recs
     THEN pr_pc' = "insert" /\ UNCHANGED <<data, steps_done>>
     ELSE IF "LON_FWT" \in columns
          THEN /\ data' = DiscardNearLimb(data, limb_threshold)
               /\ steps_done' = Append(steps_done, "near_limb")
               /\ pr_pc' = "insert"
          ELSE pr_pc' = "raised" /\ UNCHANGED <<data, steps_done>>
  /\ UNCHANGED <<keep_low_qual_vals, keep_near_limb_recs, limb_threshold, columns,
                 saved, reruns, not_pr>>

\* lines 109-118; reindex raises on duplicate record times of one HARP
InsertRows ==
  /\ pr_pc = "insert"
  /\ IF AnyDuplicateTimes(data)
     THEN pr_pc' = "error" /\ UNCHANGED <<data, steps_done>>
     ELSE /\ data' = InsertMissingRows(data)
          /\ steps_done' = Append(steps_done, "insert")
          /\ pr_pc' = "save"
  /\ UNCHANGED <<keep_low_qual_vals, keep_near_limb_recs, limb_threshold, columns,
                 saved, reruns, not_pr>>

\* lines 120-132
Save ==
  /\ pr_pc = "save"
  /\ saved' = <<OutputName, data>>
  /\ pr_pc' = "done"
  /\ UNCHANGED <<keep_low_qual_vals, keep_near_limb_recs, limb_threshold, columns,
                 data, steps_done, reruns, not_pr>>

\* lines 64-118 applied to a table: nulling, discarding, inserting, sorting
FilterAndRegularize(d) ==
  LET nulled == IF keep_low_qual_vals THEN d ELSE NullLowQuality(d)
      kept == IF keep_near_limb_recs THEN nulled ELSE DiscardNearLimb(nulled, limb_threshold)
  IN InsertMissingRows(kept)

\* the saved table is filtered and regularized once more, with the same options
Rerun ==
  /\ pr_pc = "done"
  /\ reruns = 0
  /\ ~AnyDuplicateTimes(saved[2])
  /\ data' = FilterAndRegularize(saved[2])
  /\ reruns' = 1
  /\ UNCHANGED <<pr_pc, keep_low_qual_vals, keep_near_limb_recs, limb_threshold, columns,
                 steps_done, saved, not_pr>>

PRNext ==
  \/ Compile
  \/ Convert
  \/ LowQual
  \/ NearLimb
  \/ InsertRows
  \/ Save
  \/ Rerun

SpecPR == PRInit /\ [][PRNext]_vars

----------------------------------------------------------------------------
(* aggregate_recs_by_time.py *)

\* the largest number of rows of a consolidated table
MaxRecs == 3

\* numpy.isclose: atol = 1e-8 is 1 / AtolInv
AtolInv == 100000000

\* lines 19-25: the columns aggregated (USFLUX itself and one more of the 22)
cols == <<"USFLUX", "MEANGAM">>

\* np.isclose(x, 0): |x - 0| <= atol + rtol * |0|
IsCloseToZero(x) == Abs(x) * AtolInv <= 1

RECURSIVE SumSeq(_)
SumSeq(xs) == IF xs = <<>> THEN 0 ELSE Head(xs) + SumSeq(Tail(xs))

\* series[mask]: the elements of a sequence where the mask holds
RECURSIVE Masked(_, _)
Masked(xs, mask) ==
  IF xs = <<>> THEN <<>>
  ELSE (IF Head(mask) THEN <<Head(xs)>> ELSE <<>>) \o Masked(Tail(xs), Tail(mask))

Column(group, col) == [k \in 1..Len(group) |-> group[k][col]]

\* Series.sum(): missing values are skipped
SumSkipNA(cells) ==
  SumSeq([k \in 1..Len(cells) |-> IF IsNA(cells[k]) THEN 0 ELSE cells[k][1]])

\* lines 38-48 with the weights of the whole group, not those of the
\* non-missing values
combine_col_vals_AllWeights(group, col, weights) ==
  LET is_non_na == [k \in 1..Len(group) |-> ~IsNA(group[k][col])]
      non_na_vals == Masked(Column(group, col), is_non_na)
      non_na_weights == Masked(weights, is_non_na)
      weights_sum == SumSkipNA(weights)
  IN IF SumSeq([k \in 1..Len(group) |-> IF is_non_na[k] THEN 1 ELSE 0]) = 0 THEN NA
     ELSE IF IsCloseToZero(weights_sum) THEN NA
     ELSE <<SumSeq([k \in 1..Len(non_na_vals) |-> non_na_weights[k][1] * non_na_vals[k][1]]),
            weights_sum>>

\* lines 29-49.  A combined value is NA or the fraction <<numerator, denominator>>.
combine_col_vals(group, col, weights) ==
  LET is_non_na == [k \in 1..Len(group) |-> ~IsNA(group[k][col])]
      non_na_vals == Masked(Column(group, col), is_non_na)
      non_na_weights == Masked(weights, is_non_na)
      weights_sum == SumSkipNA(non_na_weights)
  IN IF SumSeq([k \in 1..Len(group) |-> IF is_non_na[k] THEN 1 ELSE 0]) = 0 THEN NA
     ELSE IF IsCloseToZero(weights_sum) THEN NA
     ELSE <<SumSeq([k \in 1..Len(non_na_vals) |-> non_na_weights[k][1] * non_na_vals[k][1]]),
            weights_sum>>

\* lines 68-84: the mask of the records used
recs_to_use(group, low_qual, near_limb, threshold) ==
  [k \in 1..Len(group) |->
     /\ ~IsNA(group[k].USFLUX)
     /\ (~low_qual => group[k].QUALITY = <<0>>)
     /\ (~near_limb => WithinLimb(group[k].LON_FWT, threshold))]

\* lines 51-92: one aggregated row, a record over cols
combine_recs(group, low_qual, near_limb, threshold) ==
  LET used == Masked(group, recs_to_use(group, low_qual, near_limb, threshold))
  IN IF Len(used) = 0 \/ IsCloseToZero(SumSkipNA(Column(used, "USFLUX")))
     THEN [c \in SeqRange(cols) |-> NA]
     ELSE [c \in SeqRange(cols) |-> combine_col_vals(used, c, Column(used, "USFLUX"))]

RowsAt(d, t) ==
  LET AtTime(r) == r.T_REC = t
  IN SelectSeq(d, AtTime)

\* line 101 with the all-missing rows dropped from the result
AggregatedRows_DropEmpty(d, low_qual, near_limb, threshold) ==
  LET times == Ascending({d[k].T_REC : k \in 1..Len(d)})
      rows == [k \in 1..Len(times) |->
                 [T_REC |-> times[k],
                  vals |-> combine_recs(RowsAt(d, times[k]), low_qual, near_limb, threshold)]]
      NotEmpty(r) == \E c \in SeqRange(cols) : ~IsNA(r.vals[c])
  IN SelectSeq(rows, NotEmpty)

\* lines 96-101: groupby("T_REC").apply(combine_recs), one row per key in key order
AggregatedRows(d, low_qual, near_limb, threshold) ==
  LET times == Ascending({d[k].T_REC : k \in 1..Len(d)})
  IN [k \in 1..Len(times) |->
        [T_REC |-> times[k],
         vals |-> combine_recs(RowsAt(d, times[k]), low_qual, near_limb, threshold)]]

\* lines 107-109: the name of the output file
AggregatedName ==
  <<"aggregated">> \o (IF ~use_low_qual_recs THEN <<"high-qual">> ELSE <<>>)
                   \o (IF ~use_near_limb_recs THEN <<"near-center", ag_limb_threshold>> ELSE <<>>)

\* record times of a consolidated table: two consecutive times
AggTimes == {0, CadenceMin}

\* the cells of a consolidated table with several record times
TableCells ==
  [QUALITY : {<<0>>, <<1>>},
   LON_FWT : {<<DefaultLimbThreshold>>},
   USFLUX : {NA, <<0>>, <<2>>},
   MEANGAM : {NA, <<10>>}]

\* the cells of a group of records at one time: a record is either of good
\* quality and within the limb, or of low quality and beyond it
GroupCells ==
  {c \in [QUALITY : {<<0>>, <<1>>},
          LON_FWT : {<<DefaultLimbThreshold>>, <<DefaultLimbThreshold + 1>>},
          USFLUX : {NA, <<0>>, <<2>>, <<3>>},
          MEANGAM : {NA, <<10>>, <<20>>}] :
     c.QUALITY = <<1>> <=> c.LON_FWT = <<DefaultLimbThreshold + 1>>}

WithKey(c, h, t) ==
  [HARPNUM |-> <<h>>, T_REC |-> t, QUALITY |-> c.QUALITY, LON_FWT |-> c.LON_FWT,
   USFLUX |-> c.USFLUX, MEANGAM |-> c.MEANGAM]

RECURSIVE KeysInOrder(_)
\* (HARPNUM, T_REC) keys in the order the Raw-data processor sorts by
KeysInOrder(K) ==
  IF K = {} THEN <<>>
  ELSE LET first == CHOOSE a \in K : \A b \in K :
                      a[1] < b[1] \/ (a[1] = b[1] /\ a[2] <= b[2])
       IN <<first>> \o KeysInOrder(K \ {first})

\* consolidated tables: at most n rows, one per (HARPNUM, T_REC), sorted
\* by (HARPNUM, T_REC) as the Raw-data processor writes them
ConsolidatedTables(n) ==
  UNION {{[k \in 1..Cardinality(K) |-> WithKey(cs[k], KeysInOrder(K)[k][1], KeysInOrder(K)[k][2])]
            : cs \in [1..Cardinality(K) -> TableCells]}
         : K \in SubsetsUpTo(HarpNums \X AggTimes, n) \ {{}}}

CellRank(x) == IF IsNA(x) THEN -1 ELSE x[1]

\* an order on cells, used to list each group of records once
CellsLeq(a, b) ==
  LET ra == <<CellRank(a.QUALITY), CellRank(a.LON_FWT), CellRank(a.USFLUX), CellRank(a.MEANGAM)>>
      rb == <<CellRank(b.QUALITY), CellRank(b.LON_FWT), CellRank(b.USFLUX), CellRank(b.MEANGAM)>>
  IN \/ ra = rb
     \/ \E j \in 1..4 : ra[j] < rb[j] /\ \A m \in 1..(j - 1) : ra[m] = rb[m]

RECURSIVE CellLists(_)
\* the lists of n cells in ascending order
CellLists(n) ==
  IF n = 0 THEN {<<>>}
  ELSE {Append(p[1], p[2]) :
          p \in {q \in CellLists(n - 1) \X GroupCells :
                   Len(q[1]) = 0 \/ CellsLeq(q[1][Len(q[1])], q[2])}}

\* the records of up to n HARPs at one record time; HARP numbers are given in
\* the order of the cells
GroupTables(n) ==
  UNION {{[k \in 1..m |-> WithKey(cs[k], k, 0)] : cs \in CellLists(m)} : m \in 1..n}

AGInitWith(tables) ==
  /\ ag_pc = "read"
  /\ use_low_qual_recs \in BOOLEAN
  /\ use_near_limb_recs \in BOOLEAN
  /\ ag_limb_threshold = DefaultLimbThreshold
  /\ ag_input \in tables
  /\ ag_data = <<>>
  /\ ag_saved = <<>>
  /\ DLIdle /\ PRIdle /\ LFIdle

\* a consolidated table with several record times
AGInit == AGInitWith(ConsolidatedTables(MaxRecs))

\* a consolidated table with one record time and richer values
AGInitOneTime == AGInitWith(GroupTables(MaxRecs))

\* line 27: data = pd.read_parquet(...)
ReadProcessed ==
  /\ ag_pc = "read"
  /\ ag_data' = ag_input
  /\ ag_pc' = "aggregate"
  /\ UNCHANGED <<use_low_qual_recs, use_near_limb_recs, ag_limb_threshold, ag_input,
                 ag_saved, not_ag>>

\* lines 94-103
Aggregate ==
  /\ ag_pc = "aggregate"
  /\ ag_data' = AggregatedRows(ag_data, use_low_qual_recs, use_near_limb_recs,
                               ag_limb_threshold)
  /\ ag_pc' = "save"
  /\ UNCHANGED <<use_low_qual_recs, use_near_limb_recs, ag_limb_threshold, ag_input,
                 ag_saved, not_ag>>

\* lines 105-112
SaveAggregated ==
  /\ ag_pc = "save"
  /\ ag_saved' = <<AggregatedName, ag_data>>
  /\ ag_pc' = "done"
  /\ UNCHANGED <<use_low_qual_recs, use_near_limb_recs, ag_limb_threshold, ag_input,
                 ag_data, not_ag>>

AGNext ==
  \/ ReadProcessed
  \/ Aggregate
  \/ SaveAggregated

SpecAG == AGInit /\ [][AGNext]_vars

SpecAGOneTime == AGInitOneTime /\ [][AGNext]_vars

----------------------------------------------------------------------------
(* The limb filter of both scripts, applied to a table of one record *)

\* the thresholds named in the scripts' comments: 45, 68 and the default
LimbThresholds == {45, 68, DefaultLimbThreshold}

LimbLongitudes(th) ==
  {NA} \cup {<<x>> : x \in {-(th + 1), -th, -(th - 1), 0, th - 1, th, th + 1}}

LFInit ==
  /\ \E th \in LimbThresholds : \E lon \in LimbLongitudes(th) :
     \E q \in {<<0>>, <<1>>}, u \in {NA, <<5>>}, low \in BOOLEAN, near \in BOOLEAN :
       lf_in = [row |-> [HARPNUM |-> <<1>>, T_REC |-> 0, QUALITY |-> q, LON_FWT |-> lon,
                         USFLUX |-> u, MEANGAM |-> <<10>>],
                threshold |-> th, use_low_qual_recs |-> low, use_near_limb_recs |-> near]
  /\ lf_out = <<>>
  /\ DLIdle /\ PRIdle /\ AGIdle

\* process_raw_data.py line 90 on the one-row table: is the row retained?
ProcessorDiscards ==
  /\ lf_out = <<>>
  /\ lf_out' = <<"processor", Len(DiscardNearLimb(<<lf_in.row>>, lf_in.threshold)) = 1>>
  /\ UNCHANGED <<lf_in, not_lf>>

\* aggregate_recs_by_time.py lines 68-85 on the one-row group: is the row used?
AggregatorSelects ==
  /\ lf_out = <<>>
  /\ lf_out' = <<"aggregator",
                 recs_to_use(<<lf_in.row>>, lf_in.use_low_qual_recs,
                             lf_in.use_near_limb_recs, lf_in.threshold)[1]>>
  /\ UNCHANGED <<lf_in, not_lf>>

LFNext ==
  \/ ProcessorDiscards
  \/ AggregatorSelects

SpecLimb == LFInit /\ [][LFNext]_vars

----------------------------------------------------------------------------
(* Properties of the Raw-data processor *)

KeysOf(d) == {<<d[k].HARPNUM, d[k].T_REC>> : k \in 1..Len(d)}

RowsOfHarp(d, h) == {k \in 1..Len(d) : d[k].HARPNUM = <<h>>}

\* the table `after` is the table `before` with each HARP's record times
\* completed to the 12-minute sequence from its first to its last time
Regularized(before, after) ==
  /\ \A k \in 1..Len(after) : \E h \in HarpsOf(before) : after[k].HARPNUM = <<h>>
  /\ \A h \in HarpsOf(before) :
       LET obs == {before[k].T_REC : k \in RowsOfHarp(before, h)}
           lo == MinOf(obs)
           hi == MaxOf(obs)
           rows == RowsOfHarp(after, h)
       IN /\ {after[k].T_REC : k \in rows} = {t \in lo..hi : (t - lo) % 12 = 0}
          /\ \E k \in rows : after[k].T_REC = hi
          /\ \A j, k \in rows : after[j].T_REC = after[k].T_REC => j = k
          /\ \A k \in rows :
               IF after[k].T_REC \in obs
               THEN \E j \in RowsOfHarp(before, h) : before[j] = after[k]
               ELSE \A c \in columns \ {"HARPNUM", "T_REC"} : after[k][c] = <<>>

\* C4: when the missing rows are inserted, every HARPNUM group of the filtered
\* table ends up with exactly the 12-minute sequence of record times from its
\* first to its last observed time, without gap or duplicate; the observed
\* rows are kept and every inserted row carries the group's HARPNUM and
\* missing values in all other columns.
C4_MissingRowsInserted ==
  [][(pr_pc = "insert" /\ pr_pc' = "save") => Regularized(data, data')]_vars

\* C4 witness: a regularized table of two HARPs holding an inserted row.
C4_Witness ==
  /\ pr_pc = "save"
  /\ \E j, k \in 1..Len(data) : data[j].HARPNUM # data[k].HARPNUM
  /\ \E k \in 1..Len(data) :
       /\ data[k].USFLUX = <<>>
       /\ "QUALITY" \in columns /\ data[k].QUALITY = <<>>
       /\ "LON_FWT" \in columns /\ data[k].LON_FWT = <<>>

\* C8: filtering and regularizing the processor's output again, with the same
\* options, leaves the row count and the set of (HARPNUM, T_REC) unchanged.
C8_Idempotent ==
  reruns = 1 => Len(data) = Len(saved[2]) /\ KeysOf(data) = KeysOf(saved[2])

\* C8 witness: a second pass with the near-limb filter active over an output
\* whose inserted rows have a missing LON_FWT.
C8_Witness ==
  /\ reruns = 1
  /\ ~keep_near_limb_recs
  /\ ~keep_low_qual_vals
  /\ \E k \in 1..Len(saved[2]) : saved[2][k].LON_FWT = <<>>
  /\ Len(data) = 3

\* C10: every validation failure is raised before any expensive work: the
\* Downloader has then issued no query, written no file and slept not once;
\* the Raw-data processor has then neither compiled the raw files nor looked
\* up the archive metadata nor converted or transformed anything.
C10_ValidationFirst ==
  /\ dl_pc = "raised" => queries = <<>> /\ writes = <<>> /\ files = {} /\ sleeps = 0
  /\ pr_pc = "raised" => steps_done = <<>>

----------------------------------------------------------------------------
(* Properties of the Aggregator *)

\* the rows of the consolidated table at time t that pass the active-record
\* filter
Passing(t) ==
  {j \in 1..Len(ag_input) :
     /\ ag_input[j].T_REC = t
     /\ ag_input[j].USFLUX # <<>>
     /\ (use_low_qual_recs \/ ag_input[j].QUALITY = <<0>>)
     /\ (use_near_limb_recs \/
           (/\ ag_input[j].LON_FWT # <<>>
            /\ -ag_limb_threshold <= ag_input[j].LON_FWT[1]
            /\ ag_input[j].LON_FWT[1] <= ag_limb_threshold))}

RECURSIVE WeightSum(_)
\* the sum of USFLUX over a set of rows of the consolidated table
WeightSum(J) ==
  IF J = {} THEN 0
  ELSE LET j == CHOOSE j \in J : TRUE
       IN ag_input[j].USFLUX[1] + WeightSum(J \ {j})

RECURSIVE WeightedSum(_, _)
\* the sum of USFLUX * value of column c over a set of rows
WeightedSum(J, c) ==
  IF J = {} THEN 0
  ELSE LET j == CHOOSE j \in J : TRUE
       IN ag_input[j].USFLUX[1] * ag_input[j][c][1] + WeightedSum(J \ {j}, c)

Aggregated == ag_pc \in {"save", "done"}

\* C5: every aggregated value is sum(USFLUX * value) / sum(USFLUX) over
\* exactly the records of that time that pass the active-record filter and
\* have a value in that column; it is missing when that quotient is 0/0.
C5_WeightedMean ==
  Aggregated =>
    \A k \in 1..Len(ag_data) : \A c \in {"USFLUX", "MEANGAM"} :
      LET paired == {j \in Passing(ag_data[k].T_REC) : ag_input[j][c] # <<>>}
          v == ag_data[k].vals[c]
      IN IF WeightSum(paired) = 0
         THEN v = <<>>
         ELSE /\ v # <<>>
              /\ v[2] # 0
              /\ v[1] * WeightSum(paired) = WeightedSum(paired, c) * v[2]

\* C5 witness: weights 2, 0, 3 with values 10, missing, 20 aggregate to 16.
C5_Witness ==
  /\ Aggregated
  /\ Len(ag_input) = 3
  /\ Cardinality(Passing(0)) = 3
  /\ {<<ag_input[k].USFLUX, ag_input[k].MEANGAM>> : k \in 1..3}
       = {<<<<2>>, <<10>>>>, <<<<0>>, <<>>>>, <<<<3>>, <<20>>>>}
  /\ ag_data[1].vals.MEANGAM # <<>>
  /\ ag_data[1].vals.MEANGAM[1] = 16 * ag_data[1].vals.MEANGAM[2]

\* C6: the output has exactly one row per distinct T_REC of the consolidated
\* table; a time at which no record passes the filter, or at which the
\* weights of the passing records sum to (nearly) zero, has a row with every
\* column missing; a column is missing when no passing record has a value in
\* it or the weights paired with its values sum to (nearly) zero.
C6_DegenerateRows ==
  Aggregated =>
    /\ {ag_data[k].T_REC : k \in 1..Len(ag_data)} = {ag_input[j].T_REC : j \in 1..Len(ag_input)}
    /\ \A j, k \in 1..Len(ag_data) : ag_data[j].T_REC = ag_data[k].T_REC => j = k
    /\ \A k \in 1..Len(ag_data) :
         LET passing == Passing(ag_data[k].T_REC)
         IN /\ (passing = {} \/ WeightSum(passing) * 100000000 \in -1..1)
                 => \A c \in {"USFLUX", "MEANGAM"} : ag_data[k].vals[c] = <<>>
            /\ \A c \in {"USFLUX", "MEANGAM"} :
                 LET paired == {j \in passing : ag_input[j][c] # <<>>}
                 IN (paired = {} \/ WeightSum(paired) * 100000000 \in -1..1)
                      => ag_data[k].vals[c] = <<>>

\* C6 witness: of two record times, one has no passing record and an
\* all-missing row, the other has a value.
C6_Witness ==
  /\ ag_pc = "done"
  /\ Len(ag_saved[2]) = 2
  /\ Passing(ag_saved[2][1].T_REC) = {}
  /\ \A c \in {"USFLUX", "MEANGAM"} : ag_saved[2][1].vals[c] = <<>>
  /\ ag_saved[2][2].vals.USFLUX # <<>>
  /\ ag_saved[2][2].vals.MEANGAM = <<>>

----------------------------------------------------------------------------
(* Properties of the limb filter *)

\* C7: where the limb filter applies, a record is retained iff its LON_FWT
\* is present and |LON_FWT| <= limb_threshold: a record exactly at the
\* threshold, positive or negative, is retained and a record with a missing
\* LON_FWT is excluded.  The Aggregator uses such a record iff it also has a
\* USFLUX and passes the quality filter.
C7_LimbBoundary ==
  lf_out # <<>> =>
    LET lon == lf_in.row.LON_FWT
        th == lf_in.threshold
        within == lon # <<>> /\ -th <= lon[1] /\ lon[1] <= th
        others == /\ lf_in.row.USFLUX # <<>>
                  /\ (lf_in.use_low_qual_recs \/ lf_in.row.QUALITY = <<0>>)
    IN /\ lf_out[1] = "processor" => (lf_out[2] <=> within)
       /\ (lf_out[1] = "aggregator" /\ ~lf_in.use_near_limb_recs)
            => (lf_out[2] <=> (within /\ others))
       /\ (lf_out[1] = "processor" /\ lon \in {<<th>>, <<-th>>}) => lf_out[2]
       /\ (lf_out[1] = "processor" /\ lon = <<>>) => ~lf_out[2]

\* C7 witness: the Aggregator uses a record at exactly minus the threshold.
C7_Witness ==
  /\ lf_out = <<"aggregator", TRUE>>
  /\ ~lf_in.use_near_limb_recs
  /\ lf_in.row.LON_FWT = <<-lf_in.threshold>>

====
